---------------------------- MODULE Spec2Model ----------------------------
(***************************************************************************)
(* Earthquake Explorer (src/app.py): the pipeline                          *)
(*   parse_args -> build_params -> fetch_quakes -> parse_geojson ->         *)
(*   sort_quakes -> print_results -> plot_quakes                            *)
(* as a state machine (SpecMain), and its pure stages under their own      *)
(* specifications (SpecParse, SpecSort, SpecPrint, SpecFetch), whose       *)
(* initial states draw the stage's input from bounded sets.                *)
(*                                                                         *)
(* Representation of Python values                                         *)
(*   - a decoded JSON value is a record with a kind field k:               *)
(*       null, bool, num, nan, inf, big, huge, str, list, dict;            *)
(*   - a float is fixed point with one decimal digit: Num(48) is 4.8,      *)
(*     Num(15000) is 1500.0; NaN and Inf are the IEEE specials; Big is a   *)
(*     finite number beyond datetime's year 9999 (1e18), Huge one beyond   *)
(*     the platform's time_t (1e22), both too wide for 32-bit integers     *)
(*     and therefore kept as classes;                                      *)
(*   - a datetime is [sec, us]: whole seconds since the epoch (floor) and  *)
(*     microseconds 0..999999; a timedelta is the same pair;               *)
(*   - an exception is the name of its Python class.                       *)
(***************************************************************************)
EXTENDS Integers, Sequences, FiniteSets, TLC

VARIABLES
    pc,          \* position in main() or in the stage under check
    args,        \* argparse.Namespace of the run
    env,         \* what the run meets outside: clock, server, matplotlib
    params,      \* the query parameters build_params returned
    requests,    \* the HTTP GETs issued so far (their params), in order
    data,        \* the decoded body fetch_quakes returned
    quakes,      \* parse_geojson's result in main
    stdout,      \* lines printed to standard output, in order
    stderr,      \* lines printed to the error stream, in order
    calls,       \* the stages main has invoked, in order
    chart,       \* the plot_quakes call: its arguments and what it did
    ret,         \* how main ended: return code or uncaught exception
    fn_in,       \* input of the stage under check (stage specifications)
    fn_out       \* its outcome

vars == <<pc, args, env, params, requests, data, quakes, stdout, stderr,
          calls, chart, ret, fn_in, fn_out>>

-----------------------------------------------------------------------------
(* Decoded JSON values and Python floats                                   *)

Null == [k |-> "null"]
Bool(b) == [k |-> "bool", v |-> b]
Num(n) == [k |-> "num", v |-> n]
NaN == [k |-> "nan"]
Inf == [k |-> "inf"]
Big == [k |-> "big"]
Huge == [k |-> "huge"]
Str(s) == [k |-> "str", v |-> s]
List(s) == [k |-> "list", v |-> s]
Dict(d) == [k |-> "dict", v |-> d]

Ok(v) == [ok |-> TRUE, v |-> v]
Raise(e) == [ok |-> FALSE, exc |-> e]

\* obj[key] for a string key: f["properties"], f["geometry"], geom["coordinates"]
GetItemKey(obj, key) ==
    CASE obj.k = "dict" ->
            IF key \in DOMAIN obj.v THEN Ok(obj.v[key]) ELSE Raise("KeyError")
      [] obj.k \in {"list", "str"} -> Raise("TypeError")   \* indices must be integers
      [] OTHER -> Raise("TypeError")                       \* not subscriptable

\* obj[i] for an integer index: coords[0], coords[1], coords[2].
\* A string operand is outside the inputs of the model and has no case.
GetItemIdx(obj, i) ==
    CASE obj.k = "list" ->
            IF i < Len(obj.v) THEN Ok(obj.v[i + 1]) ELSE Raise("IndexError")
      [] obj.k = "dict" -> Raise("KeyError")
      [] obj.k \in {"null", "bool", "num", "nan", "inf", "big", "huge"} ->
            Raise("TypeError")

\* obj.get(key): None for a missing key; only a dict has the method
GetMethod(obj, key) ==
    IF obj.k = "dict"
    THEN Ok(IF key \in DOMAIN obj.v THEN obj.v[key] ELSE Null)
    ELSE Raise("AttributeError")

\* Python truth value of a decoded JSON value
Truthy(x) ==
    CASE x.k = "null" -> FALSE
      [] x.k = "bool" -> x.v
      [] x.k = "num" -> x.v # 0
      [] x.k = "str" -> x.v # ""
      [] x.k = "list" -> Len(x.v) > 0
      [] x.k = "dict" -> DOMAIN x.v # {}
      [] OTHER -> TRUE

\* float(s) and int(s) on the strings the model feeds them
NumericStrings == {"4.8", "1500", "nan"}
FloatOfStr(s) ==
    CASE s = "4.8" -> Ok(Num(48))
      [] s = "1500" -> Ok(Num(15000))
      [] s = "nan" -> Ok(NaN)
      [] OTHER -> Raise("ValueError")
IntOfStr(s) ==
    CASE s = "1500" -> Ok(1500)
      [] OTHER -> Raise("ValueError")

\* float(x)
Float(x) ==
    CASE x.k = "num" -> Ok(x)
      [] x.k \in {"nan", "inf", "big", "huge"} -> Ok(x)
      [] x.k = "bool" -> Ok(Num(IF x.v THEN 10 ELSE 0))
      [] x.k = "str" -> FloatOfStr(x.v)
      [] OTHER -> Raise("TypeError")

\* n / 10 truncated toward zero, as int() truncates a float
TruncTenths(n) == IF n >= 0 THEN n \div 10 ELSE -((-n) \div 10)

\* int(x): an integer, or one of the classes Big, Huge
Int_(x) ==
    CASE x.k = "num" -> Ok(Num(10 * TruncTenths(x.v)))
      [] x.k \in {"big", "huge"} -> Ok(x)
      [] x.k = "bool" -> Ok(Num(IF x.v THEN 10 ELSE 0))
      [] x.k = "nan" -> Raise("ValueError")
      [] x.k = "inf" -> Raise("OverflowError")
      [] x.k = "str" ->
            IF IntOfStr(x.v).ok THEN Ok(Num(10 * IntOfStr(x.v).v))
            ELSE Raise("ValueError")
      [] OTHER -> Raise("TypeError")

\* str(x): the values a place or a URL takes in the model are strings or
\* absent, so only the string case is given
StrOf(x) == CASE x.k = "str" -> x.v

-----------------------------------------------------------------------------
(* parse_geojson                                                           *)

\* datetime.fromtimestamp(ms / 1000, tz=timezone.utc), ms from int(t_ms)
FromTimestampMs(t) ==
    CASE t.k = "num" ->
            LET ms == t.v \div 10
            IN  Ok([sec |-> ms \div 1000, us |-> (ms % 1000) * 1000])
      [] t.k = "big" -> Raise("ValueError")        \* year is out of range
      [] t.k = "huge" -> Raise("OverflowError")    \* out of range for time_t

UnknownPlace == "(unknown location)"

\* props.get("place") or "(unknown location)"
PlaceOrDefault_OnlyNone(p) == IF p.k = "null" THEN Str(UnknownPlace) ELSE p
PlaceOrDefault(p) == IF Truthy(p) THEN p ELSE Str(UnknownPlace)

\* props.get("url") or ""
UrlOrDefault(u) == IF Truthy(u) THEN u ELSE Str("")

Rec(q) == [st |-> "rec", q |-> q]
Skip == [st |-> "skip"]
Exc(e) == [st |-> "raise", exc |-> e]

\* if mag is None or t_ms is None: continue
Incomplete(mag, t_ms) == mag.k = "null" \/ t_ms.k = "null"

\* The body of the try statement for one feature, statement by statement:
\* the first statement that raises ends it.
FeatureBody(f) ==
    LET props == GetItemKey(f, "properties")
        geom == GetItemKey(f, "geometry")
        coords == GetItemKey(geom.v, "coordinates")
        mag == GetMethod(props.v, "mag")
        place == PlaceOrDefault(GetMethod(props.v, "place").v)
        t_ms == GetMethod(props.v, "time")
        url == UrlOrDefault(GetMethod(props.v, "url").v)
        lon == GetItemIdx(coords.v, 0)
        lat == GetItemIdx(coords.v, 1)
        depth_km == GetItemIdx(coords.v, 2)
        t_int == Int_(t_ms.v)
        time_utc == FromTimestampMs(t_int.v)
        f_mag == Float(mag.v)
        f_lon == Float(lon.v)
        f_lat == Float(lat.v)
        f_depth == Float(depth_km.v)
    IN  CASE ~props.ok -> Exc(props.exc)
          [] ~geom.ok -> Exc(geom.exc)
          [] ~coords.ok -> Exc(coords.exc)
          [] ~mag.ok -> Exc(mag.exc)
          [] ~lon.ok -> Exc(lon.exc)
          [] ~lat.ok -> Exc(lat.exc)
          [] ~depth_km.ok -> Exc(depth_km.exc)
          [] Incomplete(mag.v, t_ms.v) -> Skip
          [] ~t_int.ok -> Exc(t_int.exc)
          [] ~time_utc.ok -> Exc(time_utc.exc)
          [] ~f_mag.ok -> Exc(f_mag.exc)
          [] ~f_lon.ok -> Exc(f_lon.exc)
          [] ~f_lat.ok -> Exc(f_lat.exc)
          [] ~f_depth.ok -> Exc(f_depth.exc)
          [] OTHER ->
                Rec([magnitude |-> f_mag.v, place |-> StrOf(place),
                     time_utc |-> time_utc.v, url |-> StrOf(url),
                     lon |-> f_lon.v, lat |-> f_lat.v, depth_km |-> f_depth.v])

\* except (KeyError, TypeError, ValueError): continue
CaughtPerFeature == {"KeyError", "TypeError", "ValueError"}

\* One iteration of the for loop
ParseFeature(f) ==
    LET r == FeatureBody(f)
    IN  IF r.st = "raise" /\ r.exc \in CaughtPerFeature THEN Skip ELSE r

\* The for loop over features[i..], acc being the list quakes built so far.
\* An exception the except clause does not name leaves the function at
\* feature number "at", with the local list as it stood.
RECURSIVE ParseLoop(_, _, _)
ParseLoop(features, i, acc) ==
    IF i > Len(features) THEN [st |-> "ok", quakes |-> acc]
    ELSE LET r == ParseFeature(features[i])
         IN  CASE r.st = "rec" -> ParseLoop(features, i + 1, Append(acc, r.q))
               [] r.st = "skip" -> ParseLoop(features, i + 1, acc)
               [] r.st = "raise" ->
                    [st |-> "raise", exc |-> r.exc, at |-> i, quakes |-> acc]

parse_geojson_EmptyOnBadShape(d) ==
    IF d.k = "dict" /\ GetMethod(d, "features").v.k = "list"
    THEN ParseLoop(GetMethod(d, "features").v.v, 1, <<>>)
    ELSE [st |-> "ok", quakes |-> <<>>]
parse_geojson(d) ==
    LET features == GetMethod(d, "features")
    IN  CASE ~features.ok ->
                [st |-> "raise", exc |-> features.exc, at |-> 0, quakes |-> <<>>]
          [] features.v.k # "list" ->
                [st |-> "raise", exc |-> "RuntimeError", at |-> 0, quakes |-> <<>>]
          [] OTHER -> ParseLoop(features.v.v, 1, <<>>)

-----------------------------------------------------------------------------
(* Inputs of the parser: decoded documents                                 *)

MaxFeatures == 2

GoodCoords == List(<<Num(-1224), Num(378), Num(105)>>)
Geom(c) == Dict([coordinates |-> c])
Feat(p, g) == Dict([properties |-> p, geometry |-> g])
PropsA ==
    [mag |-> Num(48), time |-> Num(15000), place |-> Str("10km NW of X"),
     url |-> Str("https://x/a")]
PropsB == [mag |-> Num(61), time |-> Num(20007), place |-> Str(""), url |-> Null]

WellFormedShapes ==
    { Feat(Dict(PropsA), Geom(GoodCoords)),
      Feat(Dict(PropsB), Geom(List(<<Num(10), Num(20), Num(0), Num(7)>>))),
      Feat(Dict([mag |-> Str("4.8"), time |-> Str("1500")]), Geom(GoodCoords)),
      Feat(Dict([mag |-> NaN, time |-> Num(-15000)]), Geom(GoodCoords)) }

\* magnitude or time absent, null or not a number
BadPropsShapes ==
    { Feat(Dict([time |-> Num(15000), place |-> Str("no mag")]), Geom(GoodCoords)),
      Feat(Dict([mag |-> Num(48), time |-> Null]), Geom(GoodCoords)),
      Feat(Dict([mag |-> Str("abc"), time |-> Num(15000)]), Geom(GoodCoords)),
      Feat(Dict([mag |-> Num(48), time |-> List(<<>>)]), Geom(GoodCoords)),
      Feat(Dict([mag |-> Num(48), time |-> NaN]), Geom(GoodCoords)),
      Feat(Dict([mag |-> Num(48), time |-> Big]), Geom(GoodCoords)),
      Feat(Dict([mag |-> Num(48), time |-> Huge]), Geom(GoodCoords)),
      Feat(Dict([mag |-> Num(48), time |-> Inf]), Geom(GoodCoords)) }

\* magnitude and time fine, geometry or coordinates not
BadGeomShapes ==
    { Dict([properties |-> Dict(PropsA)]),
      Feat(Dict(PropsA), Null),
      Feat(Dict(PropsA), Geom(Null)),
      Feat(Dict(PropsA), Geom(Dict([x |-> Num(10)]))),
      Feat(Dict(PropsA), Geom(List(<<Num(10), Num(20)>>))),
      Feat(Dict(PropsA), Geom(List(<<Str("abc"), Num(20), Num(30)>>))),
      Feat(Dict(PropsA), Geom(List(<<Num(10), Num(20), Null>>))) }

\* the feature or its properties not an object
BadStructShapes ==
    { Num(50), Null, List(<<>>),
      Dict([geometry |-> Geom(GoodCoords)]),
      Feat(Null, Geom(GoodCoords)),
      Feat(List(<<>>), Geom(GoodCoords)),
      Dict([properties |-> Null]),
      Feat(Dict([time |-> Num(15000)]), Geom(List(<<>>))) }

FeatureShapes ==
    WellFormedShapes \cup BadPropsShapes \cup BadGeomShapes \cup BadStructShapes

SeqsUpTo(S, n) == UNION {[1..m -> S] : m \in 0..n}

\* documents whose 'features' is a list, and documents where it is not
ListDocuments == {Dict([features |-> List(fs)]) : fs \in SeqsUpTo(FeatureShapes, MaxFeatures)}
OtherDocuments ==
    { Dict([type |-> Str("FeatureCollection")]),
      Dict([features |-> Null]),
      Dict([features |-> Dict([a |-> Null])]),
      List(<<>>), Null }

Idle == [k |-> "idle"]
MainIdle ==
    /\ args = Idle /\ env = Idle /\ params = Idle /\ requests = <<>>
    /\ data = Idle /\ quakes = <<>> /\ stdout = <<>> /\ stderr = <<>>
    /\ calls = <<>> /\ chart = Idle /\ ret = Idle
mainVars == <<args, env, params, requests, data, quakes, stdout, stderr,
              calls, chart, ret>>

InitParse ==
    /\ pc = "parse"
    /\ fn_in \in ListDocuments \cup OtherDocuments
    /\ fn_out = Idle
    /\ MainIdle

ParseCall ==
    /\ pc = "parse"
    /\ fn_out' = parse_geojson(fn_in)
    /\ pc' = "parsed"
    /\ UNCHANGED <<fn_in, mainVars>>

NextParse == ParseCall
SpecParse == InitParse /\ [][NextParse]_vars

-----------------------------------------------------------------------------
(* What the parser is claimed to do, stated on the document alone          *)

Field(obj, key) == IF obj.k = "dict" /\ key \in DOMAIN obj.v THEN obj.v[key] ELSE Null

\* a value float() accepts
NumberLike(x) ==
    \/ x.k \in {"num", "bool", "nan", "inf", "big", "huge"}
    \/ x.k = "str" /\ x.v \in NumericStrings
\* a value that denotes an epoch-millisecond instant datetime can hold
InstantLike(x) ==
    \/ x.k \in {"num", "bool"}
    \/ x.k = "str" /\ x.v = "1500"

MagAndTimeValid(f) ==
    /\ f.k = "dict"
    /\ Field(f, "properties").k = "dict"
    /\ NumberLike(Field(Field(f, "properties"), "mag"))
    /\ InstantLike(Field(Field(f, "properties"), "time"))
CoordinateTriple(f) ==
    LET c == Field(Field(f, "geometry"), "coordinates")
    IN  /\ c.k = "list"
        /\ Len(c.v) >= 3
        /\ \A i \in 1..3 : NumberLike(c.v[i])
WellFormed(f) == MagAndTimeValid(f) /\ CoordinateTriple(f)

\* whole milliseconds of a time value, and the instant they denote
WholeMs(x) ==
    CASE x.k = "num" -> TruncTenths(x.v)
      [] x.k = "bool" -> IF x.v THEN 1 ELSE 0
      [] x.k = "str" -> 1500
InstantOfMs(ms) == [sec |-> ms \div 1000, us |-> 1000 * (ms % 1000)]

ExpectedRecord(f) ==
    LET p == Field(f, "properties")
        c == Field(Field(f, "geometry"), "coordinates")
        place == Field(p, "place")
        url == Field(p, "url")
    IN  [magnitude |-> Float(Field(p, "mag")).v,
         place |-> IF place.k = "str" /\ place.v # "" THEN place.v ELSE UnknownPlace,
         time_utc |-> InstantOfMs(WholeMs(Field(p, "time"))),
         url |-> IF url.k = "str" THEN url.v ELSE "",
         lon |-> Float(c.v[1]).v, lat |-> Float(c.v[2]).v,
         depth_km |-> Float(c.v[3]).v]

RECURSIVE ExpectedRecords(_)
ExpectedRecords(fs) ==
    IF fs = <<>> THEN <<>>
    ELSE IF WellFormed(Head(fs))
         THEN <<ExpectedRecord(Head(fs))>> \o ExpectedRecords(Tail(fs))
         ELSE ExpectedRecords(Tail(fs))

CountMagAndTimeValid(fs) ==
    Cardinality({i \in 1..Len(fs) : MagAndTimeValid(fs[i])})

ParsedListDocument == pc = "parsed" /\ fn_in \in ListDocuments
InFeatures == fn_in.v.features.v

\* C1: whenever the top-level 'features' field is a list, parse_geojson
\* returns a record list and raises nothing, whatever the features look like.
C1_ParseNeverRaises == ParsedListDocument => fn_out.st = "ok"

\* C5: for every feature list the parser returns exactly the records of the
\* well-formed features (magnitude, time and coordinate triple present and
\* coercible), one each, in the order of the features; nothing else yields a
\* record.
C5_OrderPreservingSubsequence ==
    ParsedListDocument =>
        /\ fn_out.st = "ok"
        /\ fn_out.quakes = ExpectedRecords(InFeatures)

\* C9 as claimed: a record is constructed for a feature exactly when its
\* magnitude and time are present and numerically valid, whatever its other
\* fields are. Stated on the parses that return, where every feature has
\* been through the loop.
C9_RecordIffMagAndTime ==
    (ParsedListDocument /\ fn_out.st = "ok") =>
        Len(fn_out.quakes) = CountMagAndTimeValid(InFeatures)

\* C9 amended: for every feature the loop reaches, a record is constructed
\* exactly when magnitude and time are present and numerically valid AND the
\* geometry holds a [lon, lat, depth] triple coercible to numbers; only place
\* and URL have defaults ("(unknown location)" and "" when absent or empty).
Reached == IF fn_out.st = "ok" THEN Len(InFeatures) ELSE fn_out.at
C9_RecordIffWellFormed ==
    ParsedListDocument =>
        fn_out.quakes = ExpectedRecords(SubSeq(InFeatures, 1, Reached))

\* C9 witness: a returned parse that dropped a feature with valid magnitude
\* and time for its coordinates, and built a record with the default place.
C9_Witness ==
    /\ ParsedListDocument /\ fn_out.st = "ok"
    /\ \E i \in 1..Len(InFeatures) :
          MagAndTimeValid(InFeatures[i]) /\ ~CoordinateTriple(InFeatures[i])
    /\ \E j \in 1..Len(fn_out.quakes) : fn_out.quakes[j].place = UnknownPlace

-----------------------------------------------------------------------------
(* sort_quakes                                                             *)

\* a < b on floats: every comparison with NaN is false
FloatRank(a) == CASE a.k = "big" -> 1 [] a.k = "huge" -> 2 [] a.k = "inf" -> 3
FloatLt(a, b) ==
    CASE a.k = "nan" \/ b.k = "nan" -> FALSE
      [] a.k = "num" /\ b.k = "num" -> a.v < b.v
      [] a.k = "num" -> TRUE
      [] b.k = "num" -> FALSE
      [] OTHER -> FloatRank(a) < FloatRank(b)

\* a < b on datetimes
TimeLt(a, b) == a.sec < b.sec \/ (a.sec = b.sec /\ a.us < b.us)

\* key(a) < key(b) for the key function the order selects:
\* q.time_utc when order == "time", q.magnitude otherwise
KeyLt(order, a, b) ==
    IF order = "time" THEN TimeLt(a.time_utc, b.time_utc)
    ELSE FloatLt(a.magnitude, b.magnitude)

Reverse(s) == [i \in 1..Len(s) |-> s[Len(s) + 1 - i]]

\* list.sort's binary insertion: where x goes in the sorted s[l+1..r],
\* after every element it is not less than
RECURSIVE Bisect(_, _, _, _, _)
Bisect(order, s, x, l, r) ==
    IF l >= r THEN l
    ELSE LET m == (l + r) \div 2
         IN  IF KeyLt(order, x, s[m + 1]) THEN Bisect(order, s, x, l, m)
             ELSE Bisect(order, s, x, m + 1, r)

InsertAt(s, i, x) == SubSeq(s, 1, i) \o <<x>> \o SubSeq(s, i + 1, Len(s))

\* the stable ascending sort that uses only <
RECURSIVE SortAsc(_, _, _)
SortAsc(order, done, rest) ==
    IF rest = <<>> THEN done
    ELSE SortAsc(order,
                 InsertAt(done, Bisect(order, done, Head(rest), 0, Len(done)),
                          Head(rest)),
                 Tail(rest))

\* sorted(quakes, key=..., reverse=True): the list is reversed, sorted
\* ascending and reversed again, which keeps equal keys in input order
SortedReverse_NoPreReverse(order, s) == Reverse(SortAsc(order, <<>>, s))
SortedReverse(order, s) == Reverse(SortAsc(order, <<>>, Reverse(s)))

sort_quakes(qs, order) == SortedReverse(order, qs)

MaxQuakes == 3

At(s) == [sec |-> s, us |-> 0]
Quake(m, t, p) ==
    [magnitude |-> m, place |-> p, time_utc |-> t, url |-> "",
     lon |-> Num(0), lat |-> Num(0), depth_km |-> Num(100)]
SortQuakes ==
    {Quake(m, t, p) : m \in {Num(10), Num(25), NaN}, t \in {At(1), At(2)},
                      p \in {"a", "b"}}
Orders == {"time", "magnitude"}

InitSort ==
    /\ pc = "sort"
    /\ fn_in \in [quakes : SeqsUpTo(SortQuakes, MaxQuakes), order : Orders]
    /\ fn_out = Idle
    /\ MainIdle

SortCall ==
    /\ pc = "sort"
    /\ fn_out' = sort_quakes(fn_in.quakes, fn_in.order)
    /\ pc' = "sorted"
    /\ UNCHANGED <<fn_in, mainVars>>

NextSort == SortCall
SpecSort == InitSort /\ [][NextSort]_vars

\* a >= b as Python evaluates it on the sort key
KeyGe(order, a, b) ==
    IF order = "time" THEN ~TimeLt(a.time_utc, b.time_utc)
    ELSE /\ a.magnitude.k # "nan" /\ b.magnitude.k # "nan"
         /\ ~FloatLt(a.magnitude, b.magnitude)
KeyOf(order, q) == IF order = "time" THEN q.time_utc ELSE q.magnitude

Count(s, x) == Cardinality({i \in 1..Len(s) : s[i] = x})
IsPermutation(s, t) ==
    /\ Len(s) = Len(t)
    /\ \A i \in 1..Len(s) : Count(s, s[i]) = Count(t, s[i])
Descending(order, s) ==
    \A i \in 1..(Len(s) - 1) : KeyGe(order, s[i], s[i + 1])
WithKey(order, s, key) ==
    LET Same(q) == KeyOf(order, q) = key IN SelectSeq(s, Same)
\* records with equal keys come out in the order they went in
Stable(order, in, out) ==
    \A i \in 1..Len(in) :
        WithKey(order, out, KeyOf(order, in[i])) = WithKey(order, in, KeyOf(order, in[i]))
NoNaNKey(order, s) ==
    order = "time" \/ \A i \in 1..Len(s) : s[i].magnitude.k # "nan"

\* C6 as claimed: for every record list and mode the result is a permutation
\* of the input, descending by the mode's key on every adjacent pair, with
\* equal keys in input order.
C6_SortedDescendingStable ==
    pc = "sorted" =>
        /\ IsPermutation(fn_in.quakes, fn_out)
        /\ Descending(fn_in.order, fn_out)
        /\ Stable(fn_in.order, fn_in.quakes, fn_out)

\* C6 amended: the result is always a permutation of the input; it is
\* descending on every adjacent pair and stable whenever the keys are
\* comparable, that is in mode "time", and in mode "magnitude" when no
\* magnitude is NaN.
C6_SortedDescendingStableNoNaN ==
    pc = "sorted" =>
        /\ IsPermutation(fn_in.quakes, fn_out)
        /\ NoNaNKey(fn_in.order, fn_in.quakes) =>
              /\ Descending(fn_in.order, fn_out)
              /\ Stable(fn_in.order, fn_in.quakes, fn_out)

\* C6 witness: three records sorted by magnitude, two of them with the same
\* magnitude and different places, a third with a smaller one placed first.
C6_Witness ==
    /\ pc = "sorted" /\ fn_in.order = "magnitude" /\ Len(fn_out) = 3
    /\ NoNaNKey(fn_in.order, fn_in.quakes)
    /\ fn_in.quakes[1].magnitude = Num(10)
    /\ fn_in.quakes[2].magnitude = Num(25) /\ fn_in.quakes[3].magnitude = Num(25)
    /\ fn_in.quakes[2].place # fn_in.quakes[3].place
    /\ fn_out = <<fn_in.quakes[2], fn_in.quakes[3], fn_in.quakes[1]>>

-----------------------------------------------------------------------------
(* Calendar: the proleptic Gregorian date of a day number, and back        *)

\* days since 1970-01-01 -> <<year, month, day>>
CivilFromDays(z0) ==
    LET z == z0 + 719468
        era == z \div 146097
        doe == z - era * 146097
        yoe == (doe - doe \div 1460 + doe \div 36524 - doe \div 146096) \div 365
        doy == doe - (365 * yoe + yoe \div 4 - yoe \div 100)
        mp == (5 * doy + 2) \div 153
        d == doy - (153 * mp + 2) \div 5 + 1
        m == IF mp < 10 THEN mp + 3 ELSE mp - 9
        y == yoe + era * 400 + (IF m <= 2 THEN 1 ELSE 0)
    IN  <<y, m, d>>

\* <<year, month, day>> -> days since 1970-01-01
DaysFromCivil(y0, m, d) ==
    LET y == IF m <= 2 THEN y0 - 1 ELSE y0
        era == y \div 400
        yoe == y - era * 400
        doy == (153 * (IF m > 2 THEN m - 3 ELSE m + 9) + 2) \div 5 + d - 1
        doe == yoe * 365 + yoe \div 4 - yoe \div 100 + doy
    IN  era * 146097 + doe - 719468

-----------------------------------------------------------------------------
(* print_results                                                           *)

Min(a, b) == IF a <= b THEN a ELSE b
Max(a, b) == IF a >= b THEN a ELSE b

\* dt.strftime("%Y-%m-%d %H:%M UTC"): the date and the minute, seconds cut
StrfMinute(dt) ==
    LET date == CivilFromDays(dt.sec \div 86400)
        sod == dt.sec % 86400
    IN  [year |-> date[1], month |-> date[2], day |-> date[3],
         hour |-> sod \div 3600, minute |-> (sod % 3600) \div 60]

\* f"M{q.magnitude:.1f} | {t} | depth {q.depth_km:.1f} km | {q.place}"
format_row(q) ==
    [mag |-> q.magnitude, t |-> StrfMinute(q.time_utc), depth |-> q.depth_km,
     place |-> q.place]

\* quakes[:limit]
SliceTo_All(qs, limit) == qs
SliceTo(qs, limit) ==
    IF limit >= 0 THEN SubSeq(qs, 1, Min(limit, Len(qs)))
    ELSE SubSeq(qs, 1, Max(0, Len(qs) + limit))

\* the lines of one record: the numbered row, then the URL line if q.url
RowLines(i, q) ==
    <<[line |-> "row", no |-> i, text |-> format_row(q)]>>
    \o (IF q.url # "" THEN <<[line |-> "url", url |-> q.url]>> ELSE <<>>)

RECURSIVE RowsFrom(_, _)
RowsFrom(shown, i) ==
    IF i > Len(shown) THEN <<>>
    ELSE RowLines(i, shown[i]) \o RowsFrom(shown, i + 1)

\* what print_results(quakes, limit=limit) writes to standard output
print_results(qs, limit) ==
    IF Len(qs) = 0 THEN <<[line |-> "no_matches"]>>
    ELSE <<[line |-> "found", found |-> Len(qs), showing |-> Min(limit, Len(qs))],
           [line |-> "rule"]>>
         \o RowsFrom(SliceTo(qs, limit), 1)

MaxListed == 5

PrintQuakes ==
    { [Quake(Num(48), At(1707307920), "10km NW of X") EXCEPT !.url = "https://x/a"],
      Quake(Num(25), At(90), UnknownPlace) }
DisplayLimits == {-1, 0, 1, 2, 5, 20}

InitPrint ==
    /\ pc = "print"
    /\ fn_in \in [quakes : SeqsUpTo(PrintQuakes, MaxListed), limit : DisplayLimits]
    /\ fn_out = Idle
    /\ MainIdle

PrintCall ==
    /\ pc = "print"
    /\ fn_out' = print_results(fn_in.quakes, fn_in.limit)
    /\ pc' = "printed"
    /\ UNCHANGED <<fn_in, mainVars>>

NextPrint == PrintCall
SpecPrint == InitPrint /\ [][NextPrint]_vars

IsRow(l) == l.line = "row"
RowsOf(out) == SelectSeq(out, IsRow)

\* C7: for n >= 1 records and a display limit L > 0 the listing is a header
\* stating n found and min(L, n) shown, then exactly min(L, n) rows numbered
\* 1..min(L, n) carrying the first min(L, n) records in list order; for
\* n = 0 it is the "no matches" message alone.
C7_HeaderAndFirstRows ==
    (pc = "printed" /\ fn_in.limit > 0) =>
        LET n == Len(fn_in.quakes)
            k == Min(fn_in.limit, n)
        IN  IF n = 0 THEN fn_out = <<[line |-> "no_matches"]>>
            ELSE /\ fn_out[1] = [line |-> "found", found |-> n, showing |-> k]
                 /\ \A i \in 2..Len(fn_out) : fn_out[i].line # "found"
                 /\ RowsOf(fn_out) =
                       [i \in 1..k |->
                           [line |-> "row", no |-> i,
                            text |-> format_row(fn_in.quakes[i])]]

\* C7 witness: five records listed under a display limit of twenty
\* ("Found 5 ... Showing up to 5" and five rows).
C7_Witness ==
    /\ pc = "printed" /\ Len(fn_in.quakes) = 5 /\ fn_in.limit = 20
    /\ fn_out[1] = [line |-> "found", found |-> 5, showing |-> 5]
    /\ Len(RowsOf(fn_out)) = 5

-----------------------------------------------------------------------------
(* fetch_quakes                                                            *)

ExcerptLen == 300

\* resp.status_code != 200 is the error branch
StatusOk_Below400(status) == status < 400
StatusOk(status) == status = 200

\* resp.text[:300]
Excerpt(text) == SubSeq(text, 1, Min(ExcerptLen, Len(text)))

Fail(msg, cause) == [ok |-> FALSE, exc |-> "RuntimeError", msg |-> msg, cause |-> cause]

\* What fetch_quakes does with the one response the GET meets. A response
\* is [transport |-> "error", error |-> e] when requests.get raises a
\* RequestException, and otherwise [transport |-> "ok", status, text, json],
\* json being what resp.json() gives: Ok(document) or Raise("JSONDecodeError").
fetch_quakes(resp) ==
    CASE resp.transport = "error" ->
            Fail(<<"Network error while calling USGS API: ", resp.error>>, resp.error)
      [] ~StatusOk(resp.status) ->
            Fail(<<"USGS API returned HTTP ", resp.status, ": ", Excerpt(resp.text)>>,
                 "none")
      [] ~resp.json.ok ->
            Fail(<<"USGS API response was not valid JSON.">>, resp.json.exc)
      [] OTHER -> Ok(resp.json.v)

MaxBodyOver == 150

Text(n) == [i \in 1..n |-> i % 7]
BodyLengths == {0, 2, ExcerptLen - 1, ExcerptLen, ExcerptLen + 1, ExcerptLen + MaxBodyOver}
Statuses == {200, 204, 301, 400, 404, 500, 503}
Decodings ==
    {Raise("JSONDecodeError"), Ok(Dict([features |-> List(<<>>)])),
     Ok(Dict([error |-> Str("bad request")]))}
TransportErrors == {"ConnectionError", "Timeout"}
HttpResponse(status, text, json) ==
    [transport |-> "ok", status |-> status, text |-> text, json |-> json]
FetchResponses ==
    {[transport |-> "error", error |-> e] : e \in TransportErrors}
    \cup {HttpResponse(st, Text(n), j) : st \in Statuses, n \in BodyLengths, j \in Decodings}

InitFetch ==
    /\ pc = "fetch"
    /\ fn_in \in FetchResponses
    /\ fn_out = Idle
    /\ MainIdle

FetchCall ==
    /\ pc = "fetch"
    /\ fn_out' = fetch_quakes(fn_in)
    /\ pc' = "fetched"
    /\ UNCHANGED <<fn_in, mainVars>>

NextFetch == FetchCall
SpecFetch == InitFetch /\ [][NextFetch]_vars

\* the four classes of response, read off the response alone
ResponseClass(resp) ==
    CASE resp.transport = "error" -> "network"
      [] resp.status # 200 -> "status"
      [] ~resp.json.ok -> "decode"
      [] OTHER -> "body"
\* the class an outcome tells its caller
OutcomeClass(out) ==
    CASE out.ok -> "body"
      [] out.msg[1] = "Network error while calling USGS API: " -> "network"
      [] out.msg[1] = "USGS API returned HTTP " -> "status"
      [] out.msg[1] = "USGS API response was not valid JSON." -> "decode"
      [] OTHER -> "other"
IsPrefix(p, t) == Len(p) <= Len(t) /\ p = SubSeq(t, 1, Len(p))

\* C3: the outcome is the decoded body exactly for status 200 with valid
\* JSON, a network error when the transport fails, a status error carrying
\* the status code and at most the first 300 characters of the body for
\* every other status whatever the body, and a decode error for status 200
\* with invalid JSON; the outcome alone tells which of the four it is.
C3_FourOutcomes ==
    pc = "fetched" =>
        /\ OutcomeClass(fn_out) = ResponseClass(fn_in)
        /\ fn_out.ok => fn_out.v = fn_in.json.v
        /\ OutcomeClass(fn_out) = "status" =>
              /\ fn_out.msg[2] = fn_in.status
              /\ IsPrefix(fn_out.msg[4], fn_in.text)
              /\ Len(fn_out.msg[4]) = Min(300, Len(fn_in.text))

\* C3 witness: a 500 answer whose body is valid JSON and longer than 300
\* characters ended as a status error with a 300-character excerpt.
C3_Witness ==
    /\ pc = "fetched" /\ fn_in.transport = "ok" /\ fn_in.status = 500
    /\ fn_in.json.ok /\ Len(fn_in.text) > 300
    /\ ~fn_out.ok /\ Len(fn_out.msg[4]) = 300

-----------------------------------------------------------------------------
(* build_params                                                            *)

\* A float number of hours is kept as the duration it denotes:
\* Hours(s, n) is (s + n / 10^9) / 3600 hours, 0 <= n < 10^9.
Hours(s, n) == [k |-> "num", sec |-> s, ns |-> n]

\* args.hours <= 0 (false for NaN)
NotPositive_Strict(h) == h.k = "num" /\ h.sec < 0
NotPositive(h) == h.k = "num" /\ (h.sec < 0 \/ (h.sec = 0 /\ h.ns = 0))

\* n / 1000 rounded to the nearest integer, ties to even
RoundHalfEven1000(n) ==
    LET q == n \div 1000
        r == n % 1000
    IN  IF r > 500 \/ (r = 500 /\ q % 2 = 1) THEN q + 1 ELSE q

\* timedelta(hours=h): rounded to whole microseconds; NaN is refused
TimedeltaOfHours(h) ==
    IF h.k = "nan" THEN Raise("ValueError")
    ELSE LET us == RoundHalfEven1000(h.ns)
         IN  Ok([sec |-> h.sec + us \div 1000000, us |-> us % 1000000])

\* end_utc - timedelta
MinusDelta_Plus(t, d) ==
    [sec |-> t.sec + d.sec + (t.us + d.us) \div 1000000,
     us |-> (t.us + d.us) % 1000000]
MinusDelta(t, d) ==
    [sec |-> t.sec - d.sec + (t.us - d.us) \div 1000000,
     us |-> (t.us - d.us) % 1000000]

\* isoformat_utc: "YYYY-MM-DDTHH:MM:SS", the microseconds cut
isoformat_utc(dt) ==
    LET date == CivilFromDays(dt.sec \div 86400)
        sod == dt.sec % 86400
    IN  <<date[1], date[2], date[3], sod \div 3600, (sod % 3600) \div 60, sod % 60>>

\* str(min_mag): sign, integer part and the decimal digit; str(limit)
StrOfFloat(x) ==
    IF x.v >= 0 THEN <<"", x.v \div 10, ".", x.v % 10>>
    ELSE <<"-", (-x.v) \div 10, ".", (-x.v) % 10>>
StrOfInt(n) == IF n >= 0 THEN <<"", n>> ELSE <<"-", -n>>

build_params(start_utc, end_utc, min_mag, limit) ==
    [format |-> "geojson",
     starttime |-> isoformat_utc(start_utc),
     endtime |-> isoformat_utc(end_utc),
     minmagnitude |-> StrOfFloat(min_mag),
     limit |-> StrOfInt(limit)]

-----------------------------------------------------------------------------
(* plot_quakes                                                             *)

\* not quakes -> "No data to plot."; otherwise matplotlib is imported inside
\* the function ("so the script still runs without plotting dependencies"),
\* which raises where it is not installed; then the figure is saved when
\* save_path is truthy and shown when show is set, closed otherwise.
plot_quakes(qs, title, save_path, show, matplotlib) ==
    LET call == [quakes |-> qs, title |-> title, save_path |-> save_path, show |-> show]
    IN  CASE Len(qs) = 0 ->
                [call |-> call, out |-> <<[line |-> "no_data"]>>, saved |-> FALSE,
                 shown |-> FALSE, exc |-> "none"]
          [] ~matplotlib ->
                [call |-> call, out |-> <<>>, saved |-> FALSE, shown |-> FALSE,
                 exc |-> "ModuleNotFoundError"]
          [] OTHER ->
                [call |-> call,
                 out |-> IF Truthy(save_path)
                         THEN <<[line |-> "saved", path |-> save_path]>> ELSE <<>>,
                 saved |-> Truthy(save_path), shown |-> show, exc |-> "none"]

-----------------------------------------------------------------------------
(* main                                                                    *)

USGS_QUERY_ENDPOINT == "https://earthquake.usgs.gov/fdsnws/event/1/query"

MaxMainFeatures == 2

HoursValues ==
    {Hours(-3600, 0), Hours(0, 0), Hours(0, 100), Hours(0, 360000000),
     Hours(1, 500000000), Hours(86400, 0), NaN}
LimitValues == {0, 1, 20}
SavePaths == {Null, Str(""), Str("quakes.png")}
ArgSets ==
    [hours : HoursValues, min_mag : {Num(25)}, limit : LimitValues, order : Orders,
     plot : BOOLEAN, save_plot : SavePaths, no_show : BOOLEAN]

\* datetime.now(timezone.utc): 2026-02-07T12:00:00 and half a second later
Clocks == {[sec |-> 1770465600, us |-> 0], [sec |-> 1770465600, us |-> 500000]}

MainFeatureShapes ==
    { Feat(Dict(PropsA), Geom(GoodCoords)),
      Feat(Dict(PropsB), Geom(GoodCoords)),
      Feat(Dict(PropsA), Geom(Null)),
      Feat(Null, Geom(GoodCoords)) }
MainDocuments ==
    {Dict([features |-> List(fs)]) : fs \in SeqsUpTo(MainFeatureShapes, MaxMainFeatures)}
    \cup {Dict([type |-> Str("FeatureCollection")]), List(<<>>)}
MainResponses ==
    {[transport |-> "error", error |-> "ConnectionError"],
     HttpResponse(500, Text(2), Ok(Dict([features |-> List(<<>>)]))),
     HttpResponse(200, Text(2), Raise("JSONDecodeError"))}
    \cup {HttpResponse(200, Text(2), Ok(d)) : d \in MainDocuments}

Returned(code) == [code |-> code, exc |-> "none"]
\* an uncaught exception leaves main; the interpreter exits with status 1
Uncaught(exc) == [code |-> 1, exc |-> exc]
Called(names) == calls' = calls \o names

InitMain ==
    /\ pc = "main"
    /\ args \in ArgSets
    /\ env = [now |-> Idle, response |-> Idle, matplotlib |-> Idle]
    /\ params = Idle /\ requests = <<>> /\ data = Idle /\ quakes = <<>>
    /\ stdout = <<>> /\ stderr = <<>> /\ calls = <<>> /\ chart = Idle
    /\ ret = Idle
    /\ fn_in = Idle /\ fn_out = Idle

\* if args.hours <= 0: ... return 2; if args.limit <= 0: ... return 2
Validate ==
    /\ pc = "main"
    /\ IF NotPositive(args.hours)
       THEN /\ stderr' = Append(stderr, "--hours must be > 0")
            /\ ret' = Returned(2) /\ pc' = "exit"
       ELSE IF args.limit <= 0
       THEN /\ stderr' = Append(stderr, "--limit must be > 0")
            /\ ret' = Returned(2) /\ pc' = "exit"
       ELSE /\ pc' = "window" /\ UNCHANGED <<stderr, ret>>
    /\ UNCHANGED <<args, env, params, requests, data, quakes, stdout, calls,
                   chart, fn_in, fn_out>>

\* end_utc = now; start_utc = end_utc - timedelta(hours); params = build_params
Window ==
    /\ pc = "window"
    /\ \E now \in Clocks :
          LET delta == TimedeltaOfHours(args.hours)
          IN  /\ env' = [env EXCEPT !.now = now]
              /\ IF delta.ok
                 THEN /\ params' = build_params(MinusDelta(now, delta.v), now,
                                                args.min_mag, args.limit)
                      /\ Called(<<"build_params">>)
                      /\ pc' = "fetch" /\ UNCHANGED ret
                 ELSE /\ ret' = Uncaught(delta.exc) /\ pc' = "exit"
                      /\ UNCHANGED <<params, calls>>
    /\ UNCHANGED <<args, requests, data, quakes, stdout, stderr, chart, fn_in, fn_out>>

\* data = fetch_quakes(params): one requests.get, whatever comes back
Fetch ==
    /\ pc = "fetch"
    /\ \E resp \in MainResponses :
          LET r == fetch_quakes(resp)
          IN  /\ env' = [env EXCEPT !.response = resp]
              /\ requests' = Append(requests, [url |-> USGS_QUERY_ENDPOINT,
                                               params |-> params])
              /\ IF r.ok
                 THEN data' = r.v /\ pc' = "parse" /\ UNCHANGED ret
                 ELSE ret' = Uncaught(r.exc) /\ pc' = "exit" /\ UNCHANGED data
    /\ Called(<<"fetch_quakes">>)
    /\ UNCHANGED <<args, params, quakes, stdout, stderr, chart, fn_in, fn_out>>

\* quakes = parse_geojson(data)
Parse ==
    /\ pc = "parse"
    /\ LET r == parse_geojson(data)
       IN  IF r.st = "ok"
           THEN quakes' = r.quakes /\ pc' = "show" /\ UNCHANGED ret
           ELSE ret' = Uncaught(r.exc) /\ pc' = "exit" /\ UNCHANGED quakes
    /\ Called(<<"parse_geojson">>)
    /\ UNCHANGED <<args, env, params, requests, data, stdout, stderr, chart,
                   fn_in, fn_out>>

\* quakes_sorted = sort_quakes(quakes, args.order)
\* print_results(quakes_sorted, limit=args.limit)
Show ==
    /\ pc = "show"
    /\ stdout' = stdout \o print_results(sort_quakes(quakes, args.order), args.limit)
    /\ Called(<<"sort_quakes", "print_results">>)
    /\ pc' = "chart"
    /\ UNCHANGED <<args, env, params, requests, data, quakes, stderr, chart, ret,
                   fn_in, fn_out>>

\* if args.plot or args.save_plot
WantsChart(a) == a.plot \/ Truthy(a.save_plot)

\* quakes_by_time = sort_quakes(quakes, "time")
ChartOrder(qs) == sort_quakes(qs, "time")

\* plot_quakes(quakes_by_time, ...) when asked for; return 0
Chart ==
    /\ pc = "chart"
    /\ IF WantsChart(args)
       THEN \E matplotlib \in BOOLEAN :
               LET c == plot_quakes(ChartOrder(quakes),
                                    [hours |-> args.hours, min_mag |-> args.min_mag],
                                    args.save_plot, ~args.no_show, matplotlib)
               IN  /\ env' = [env EXCEPT !.matplotlib = matplotlib]
                   /\ chart' = c
                   /\ stdout' = stdout \o c.out
                   /\ Called(<<"sort_quakes", "plot_quakes">>)
                   /\ ret' = IF c.exc = "none" THEN Returned(0) ELSE Uncaught(c.exc)
       ELSE /\ ret' = Returned(0)
            /\ UNCHANGED <<env, chart, stdout, calls>>
    /\ pc' = "exit"
    /\ UNCHANGED <<args, params, requests, data, quakes, stderr, fn_in, fn_out>>

NextMain == Validate \/ Window \/ Fetch \/ Parse \/ Show \/ Chart
SpecMain == InitMain /\ [][NextMain]_vars

-----------------------------------------------------------------------------
(* Claims about a run of main                                              *)

Exited == pc = "exit"
Invoked(name) == \E i \in 1..Len(calls) : calls[i] = name
FirstCall(name) == CHOOSE i \in 1..Len(calls) : calls[i] = name

HoursNotPositive ==
    args.hours.k = "num" /\ (args.hours.sec < 0 \/ (args.hours.sec = 0 /\ args.hours.ns = 0))
HoursPositive ==
    args.hours.k = "num" /\ (args.hours.sec > 0 \/ (args.hours.sec = 0 /\ args.hours.ns > 0))
ArgsRejected == HoursNotPositive \/ args.limit <= 0
ArgsAccepted == HoursPositive /\ args.limit > 0

FeaturesIsList(d) ==
    d.k = "dict" /\ "features" \in DOMAIN d.v /\ d.v.features.k = "list"
Answered == env.response # Idle
FetchSucceeded == Answered /\ ResponseClass(env.response) = "body"
FetchFailed == Answered /\ ResponseClass(env.response) # "body"
SchemaFailed == FetchSucceeded /\ ~FeaturesIsList(env.response.json.v)
ParseSucceeded == FetchSucceeded /\ Invoked("parse_geojson") /\ parse_geojson(data).st = "ok"
ChartFailed == chart # Idle /\ chart.exc # "none"

RejectedRunEndsWith2 ==
    (Exited /\ ArgsRejected) =>
        /\ ret = Returned(2)
        /\ Len(stderr) = 1 /\ stdout = <<>>
        /\ requests = <<>>
        /\ \A n \in {"fetch_quakes", "parse_geojson", "sort_quakes", "print_results",
                     "plot_quakes"} : ~Invoked(n)

C4_SingleAttemptFailFast ==
    /\ Len(requests) <= 1
    /\ (FetchFailed \/ SchemaFailed) =>
          /\ stdout = <<>>
          /\ ~Invoked("sort_quakes") /\ ~Invoked("print_results")
          /\ ~Invoked("plot_quakes")
          /\ Exited => ret.code # 0

\* C4 witness: a 200 answer without a 'features' list ended the run with an
\* uncaught RuntimeError after the single request.
C4_Witness ==
    /\ Exited /\ SchemaFailed /\ Len(requests) = 1
    /\ ret = Uncaught("RuntimeError") /\ args.plot

\* the instant an ISO string denotes, in seconds since the epoch
IsoInstant(iso) ==
    DaysFromCivil(iso[1], iso[2], iso[3]) * 86400 + iso[4] * 3600 + iso[5] * 60 + iso[6]
SentWindow ==
    IsoInstant(requests[1].params.endtime) - IsoInstant(requests[1].params.starttime)
Sent == Len(requests) >= 1 /\ ArgsAccepted

\* C8 as claimed: the start and end sent to the API denote instants with
\* start strictly before end and exactly `hours` hours apart, sub-second
\* windows included.
C8_WindowExact ==
    Sent => /\ SentWindow > 0
            /\ SentWindow = args.hours.sec /\ args.hours.ns = 0

\* C8 amended: the start sent is never after the end sent, and their
\* distance is the window cut to whole seconds or one second more; it is
\* exactly the window, with start strictly before end, when the window is a
\* whole number of seconds.
C8_WindowWithinOneSecond ==
    Sent => /\ SentWindow >= 0
            /\ SentWindow \in {args.hours.sec, args.hours.sec + 1}
            /\ args.hours.ns = 0 => (SentWindow = args.hours.sec /\ SentWindow > 0)

\* C8 witness: a window of 0.0001 hours (0.36 s) sent with start equal to end.
C8_Witness ==
    /\ Sent /\ args.hours = Hours(0, 360000000)
    /\ requests[1].params.starttime = requests[1].params.endtime
    /\ requests[1].params.endtime = <<2026, 2, 7, 12, 0, 0>>

Chronological(qs) ==
    \A i \in 1..(Len(qs) - 1) : ~TimeLt(qs[i + 1].time_utc, qs[i].time_utc)

\* C10: the chart presenter is invoked exactly when the plot flag or a
\* (non-empty) save path is given, after the text presenter, with the
\* records in chronological order (non-decreasing time) whatever the order
\* of the listing; with no record it prints the no-data message and neither
\* saves nor shows.
C10_ChartChronological ==
    (Exited /\ Invoked("print_results")) =>
        /\ Invoked("plot_quakes") <=> (args.plot \/ Truthy(args.save_plot))
        /\ Invoked("plot_quakes") =>
              /\ chart # Idle
              /\ FirstCall("print_results") < FirstCall("plot_quakes")
              /\ Chronological(chart.call.quakes)
              /\ Len(chart.call.quakes) = 0 =>
                    /\ chart.out = <<[line |-> "no_data"]>>
                    /\ ~chart.saved /\ ~chart.shown

=============================================================================
